---- MODULE Spec2Model ----
(***************************************************************************)
(* Model of the interest-payment client (src/main.rs): argument and        *)
(* configuration handling at startup, then the loop of main that reads the *)
(* vault account, builds the TopupInterest instruction, signs and submits  *)
(* one transaction and sleeps for the configured number of days.           *)
(*                                                                         *)
(* Optional and fallible values are tagged records: None / Some(val),      *)
(* Ok(val) / Err(err).  A public key is a record with its 32 bytes, or,    *)
(* for a program-derived address, the seeds and program it is derived      *)
(* from (the hash is kept symbolic, and so collision free).                *)
(***************************************************************************)
EXTENDS Integers, Sequences, FiniteSets, TLC

VARIABLES
    argv,                    \* the command line, as clap sees it
    fs,                      \* the files of the operator: CLI config, keypair files
    pc,                      \* position of main
    args,                    \* Args::parse() result
    config,                  \* the Config in use
    interest_payer_keypair,
    network_url,
    tick,                    \* number of loop iterations started
    rpc_client,
    vault_account,
    vault_deserialized,
    token_payer_ac,
    pay_interest_ix,
    recent_blockhash,
    transaction,
    result,
    sleep_ms,                \* argument of the last Duration::from_millis
    sleeps,                  \* the sleeps that elapsed in full, in order
    rpc_log,                 \* requests issued to the RPC endpoint, in order
    stdout,
    stderr,
    exit_code

vars == <<argv, fs, pc, args, config, interest_payer_keypair, network_url, tick,
          rpc_client, vault_account, vault_deserialized, token_payer_ac,
          pay_interest_ix, recent_blockhash, transaction, result, sleep_ms,
          sleeps, rpc_log, stdout, stderr, exit_code>>

startup_vars == <<argv, fs, args, config, interest_payer_keypair, network_url>>

tick_vars == <<rpc_client, vault_account, vault_deserialized, token_payer_ac,
               pay_interest_ix, recent_blockhash, transaction, result>>

----------------------------------------------------------------------------
(* Bounds of the model *)

MaxTicks == 2

----------------------------------------------------------------------------
(* Option and Result *)

None == [tag |-> "None"]
Some(v) == [tag |-> "Some", val |-> v]
Ok(v) == [tag |-> "Ok", val |-> v]
Err(e) == [tag |-> "Err", err |-> e]

IsSome(o) == o.tag = "Some"
IsOk(r) == r.tag = "Ok"
IsErr(r) == r.tag = "Err"

\* Option::unwrap_or
unwrap_or(o, default) == IF IsSome(o) THEN o.val ELSE default

----------------------------------------------------------------------------
(* Public keys *)

PUBKEY_BYTES == 32

Pubkey(bytes) == [kind |-> "bytes", bytes |-> bytes]

\* a key whose 32 bytes all equal n
KeyOf(n) == Pubkey([i \in 1..PUBKEY_BYTES |-> n])

ANCHOR_DISCRIMINATOR_SIZE == 8

VAULTS_PROGRAM_ID ==
    Pubkey(<<70, 51, 197, 135, 108, 188, 195, 114, 100, 161, 151, 198, 111, 220,
             111, 247, 51, 157, 205, 221, 114, 34, 113, 178, 255, 1, 243, 170,
             56, 163, 206, 14>>)

\* anchor_spl::token::ID, TokenkegQfeZyiNwAJbNbGKPFXCWuBvf9Ss623VQ5DA
TOKEN_PROGRAM_ID ==
    Pubkey(<<6, 221, 246, 225, 215, 101, 161, 147, 217, 203, 225, 70, 206, 235,
             121, 172, 28, 180, 133, 237, 95, 91, 55, 145, 58, 140, 245, 133,
             126, 255, 0, 169>>)

\* anchor_lang::system_program::ID, 11111111111111111111111111111111
SYSTEM_PROGRAM_ID == KeyOf(0)

\* spl_associated_token_account::ID, ATokenGPvbdGVxr1b2hvZbsiqW5xWH25efTNsLJA8knL
ASSOCIATED_TOKEN_PROGRAM_ID ==
    Pubkey(<<140, 151, 37, 143, 78, 36, 137, 241, 187, 61, 16, 41, 20, 142, 13,
             131, 11, 90, 19, 153, 218, 255, 16, 132, 4, 142, 123, 216, 219, 233,
             248, 89>>)

\* Pubkey::find_program_address, with the hash kept symbolic
find_program_address(seeds, program_id) ==
    [kind |-> "pda", seeds |-> seeds, program |-> program_id]

\* spl_associated_token_account::get_associated_token_address
get_associated_token_address(wallet, mint) ==
    find_program_address(<<wallet, TOKEN_PROGRAM_ID, mint>>,
                         ASSOCIATED_TOKEN_PROGRAM_ID)

----------------------------------------------------------------------------
(* The inputs: command line and files *)

U16_MAX == 65535

DEFAULT_DURATION == 30

\* values given to --duration
Durations == {0, 1, U16_MAX}

Urls == {"m", "http://my.node:8899"}

VaultArg == KeyOf(7)

HOME == <<"/", "home", "op">>

CliKeypairPath == <<"~", "payer.json">>

CfgKeypairPath == <<"/", "keys", "cfg.json">>

\* solana_cli_config::Config::default()
ConfigDefault ==
    [keypair_path |-> HOME \o <<".config", "solana", "id.json">>,
     json_rpc_url |-> "https://api.mainnet-beta.solana.com"]

\* the content of the operator's CLI config file, when it loads
ConfigOnFile == [keypair_path |-> CfgKeypairPath, json_rpc_url |-> "d"]

\* shellexpand::tilde
tilde(path) ==
    IF path # <<>> /\ Head(path) = "~" THEN HOME \o Tail(path) ELSE path

Keypair(n) == [pubkey |-> KeyOf(n), secret |-> n]

\* the keypair files that may exist, by expanded path
KeypairFiles ==
    (tilde(CliKeypairPath) :> Keypair(1))
        @@ (CfgKeypairPath :> Keypair(2))
        @@ (ConfigDefault.keypair_path :> Keypair(3))

Restrict(f, S) == [x \in S |-> f[x]]

Argvs ==
    [url : {None} \cup {Some(u) : u \in Urls},
     vault : {None, Some(VaultArg)},
     duration : {None} \cup {Some(d) : d \in Durations},
     keypair_path : {None, Some(CliKeypairPath)}]

Filesystems ==
    [config_file : {None, Some(<<"/", "home", "op", ".config", "solana", "cli", "config.yml">>)},
     config_load : {Err("unreadable"), Ok(ConfigOnFile)},
     keypairs : {Restrict(KeypairFiles, S) :
                    S \in {{}, DOMAIN KeypairFiles}}]

----------------------------------------------------------------------------
(* Output lines and process exit *)

Line(text, arg) == [text |-> text, arg |-> arg]

Num(n) == [kind |-> "num", n |-> n]

Str(s) == [kind |-> "str", s |-> s]

NotStarted == [tag |-> "Unset"]

EXIT_ERR == 1       \* main returned Err
EXIT_USAGE == 2     \* clap rejected the command line
EXIT_PANIC == 101   \* a panic unwound main

\* the process before main runs: nothing is bound, nothing was output
FreshProcess ==
    /\ pc = "Start"
    /\ args = NotStarted
    /\ config = NotStarted
    /\ interest_payer_keypair = NotStarted
    /\ network_url = NotStarted
    /\ tick = 0
    /\ rpc_client = NotStarted
    /\ vault_account = NotStarted
    /\ vault_deserialized = NotStarted
    /\ token_payer_ac = NotStarted
    /\ pay_interest_ix = NotStarted
    /\ recent_blockhash = NotStarted
    /\ transaction = NotStarted
    /\ result = NotStarted
    /\ sleep_ms = NotStarted
    /\ sleeps = <<>>
    /\ rpc_log = <<>>
    /\ stdout = <<>>
    /\ stderr = <<>>
    /\ exit_code = None

Init ==
    /\ argv \in Argvs
    /\ fs \in Filesystems
    /\ fs.config_file = None => fs.config_load = Err("unreadable")
    /\ FreshProcess

\* the process ends: an error line on stderr and an exit code
Exit(code, line) ==
    /\ pc' = "Exited"
    /\ exit_code' = Some(code)
    /\ stderr' = Append(stderr, line)

----------------------------------------------------------------------------
(* Startup *)

\* Args::parse(): --vault is required, --duration defaults to 30
ParseArgs ==
    /\ pc = "Start"
    /\ UNCHANGED sleeps
    /\ IF argv.vault = None
       THEN /\ Exit(EXIT_USAGE, Line("error: missing --vault", Str("usage")))
            /\ UNCHANGED args
       ELSE /\ args' = [url |-> argv.url,
                        vault |-> argv.vault.val,
                        duration |-> unwrap_or(argv.duration, DEFAULT_DURATION),
                        keypair_path |-> argv.keypair_path]
            /\ pc' = "LoadConfig"
            /\ UNCHANGED <<exit_code, stderr>>
    /\ UNCHANGED <<argv, fs, config, interest_payer_keypair, network_url, tick,
                   sleep_ms, rpc_log, stdout>>
    /\ UNCHANGED tick_vars

\* match CONFIG_FILE.as_ref(): a config file that does not load is replaced
\* by the default configuration, with a line on stdout
LoadConfig ==
    /\ pc = "LoadConfig"
    /\ UNCHANGED sleeps
    /\ IF IsSome(fs.config_file)
       THEN IF IsOk(fs.config_load)
            THEN /\ config' = fs.config_load.val
                 /\ UNCHANGED stdout
            ELSE /\ config' = ConfigDefault
                 /\ stdout' = Append(stdout, Line("Failed to load config file: ",
                                                  Str("config.yml")))
       ELSE /\ config' = ConfigDefault
            /\ UNCHANGED stdout
    /\ pc' = "LoadKeypair"
    /\ UNCHANGED <<argv, fs, args, interest_payer_keypair, network_url, tick,
                   sleep_ms, rpc_log, stderr, exit_code>>
    /\ UNCHANGED tick_vars

\* read_keypair_file(tilde(path)).map_err(..)
get_keypair_from_path(path) ==
    IF tilde(path) \in DOMAIN fs.keypairs
    THEN Ok(fs.keypairs[tilde(path)])
    ELSE Err("keypair file unreadable")

\* the keypair always read from the path of the configuration
LoadKeypair_from_config ==
    /\ pc = "LoadKeypair"
    /\ UNCHANGED sleeps
    /\ LET kp == get_keypair_from_path(config.keypair_path)
       IN IF IsOk(kp)
          THEN /\ interest_payer_keypair' = kp.val
               /\ pc' = "Resolve"
               /\ UNCHANGED <<exit_code, stderr>>
          ELSE /\ Exit(EXIT_ERR, Line("Error: ", Str(kp.err)))
               /\ UNCHANGED interest_payer_keypair
    /\ UNCHANGED <<argv, fs, args, config, network_url, tick, sleep_ms, rpc_log,
                   stdout>>
    /\ UNCHANGED tick_vars

\* get_keypair_from_path(..)? : an unreadable keypair ends main with Err
LoadKeypair ==
    /\ pc = "LoadKeypair"
    /\ UNCHANGED sleeps
    /\ LET kp == get_keypair_from_path(unwrap_or(args.keypair_path, config.keypair_path))
       IN IF IsOk(kp)
          THEN /\ interest_payer_keypair' = kp.val
               /\ pc' = "Resolve"
               /\ UNCHANGED <<exit_code, stderr>>
          ELSE /\ Exit(EXIT_ERR, Line("Error: ", Str(kp.err)))
               /\ UNCHANGED interest_payer_keypair
    /\ UNCHANGED <<argv, fs, args, config, network_url, tick, sleep_ms, rpc_log,
                   stdout>>
    /\ UNCHANGED tick_vars

\* the short names resolved to the cluster name first, the cluster name to
\* its address
get_network_by_cluster(network_str) ==
    CASE network_str \in {"devnet", "dev", "d"} -> "https://api.devnet.solana.com"
      [] network_str \in {"mainnet", "main", "m"} -> "mainnet-beta"
      [] network_str = "mainnet-beta" -> "https://api.mainnet-beta.solana.com"
      [] network_str \in {"localnet", "localhost", "l"} -> "http://localhost:8899"
      [] OTHER -> network_str

\* the match without the "l" pattern of the third arm
get_network_short_arm(network_str) ==
    CASE network_str \in {"devnet", "dev", "d"} -> "https://api.devnet.solana.com"
      [] network_str \in {"mainnet", "main", "m", "mainnet-beta"} ->
            "https://api.mainnet-beta.solana.com"
      [] network_str \in {"localnet", "localhost"} -> "http://localhost:8899"
      [] OTHER -> network_str

get_network(network_str) ==
    CASE network_str \in {"devnet", "dev", "d"} -> "https://api.devnet.solana.com"
      [] network_str \in {"mainnet", "main", "m", "mainnet-beta"} ->
            "https://api.mainnet-beta.solana.com"
      [] network_str \in {"localnet", "localhost", "l"} -> "http://localhost:8899"
      [] OTHER -> network_str

\* the endpoint is resolved and the banner printed; main enters the loop
Banner ==
    /\ pc = "Resolve"
    /\ UNCHANGED sleeps
    /\ network_url' = Str(get_network(unwrap_or(args.url, config.json_rpc_url)))
    /\ stdout' = stdout \o
            << Line("Payer key: ", interest_payer_keypair.pubkey),
               Line("Vault: ", args.vault),
               Line("Runs every {} days", Num(args.duration)) >>
    /\ pc' = "Idle"
    /\ UNCHANGED <<argv, fs, args, config, interest_payer_keypair, tick, sleep_ms,
                   rpc_log, stderr, exit_code>>
    /\ UNCHANGED tick_vars

----------------------------------------------------------------------------
(* The chain, as the RPC endpoint answers *)

\* the 8-byte type tag of a Vault account
VaultTag == <<211, 8, 232, 43, 2, 152, 117, 119>>

Take(seq, n) == SubSeq(seq, 1, IF n < Len(seq) THEN n ELSE Len(seq))

Drop(seq, n) == SubSeq(seq, n + 1, Len(seq))

\* account data of len bytes: tag, token, token_vault_ac, then other fields
VaultData(token, token_vault_ac, len) ==
    Take(VaultTag \o token.bytes \o token_vault_ac.bytes \o [i \in 1..128 |-> 0], len)

Mint1 == KeyOf(11)

TokenVault1 == KeyOf(12)

TokenVault2 == KeyOf(22)

\* total lengths of vault account data too short for the layout
ShortLens == {0, 7, 8, 40, 71}

\* the vault account data the endpoint may return
VaultDatas ==
    {VaultData(Mint1, TokenVault1, n) : n \in ShortLens \cup {200}}
        \cup {VaultData(VAULTS_PROGRAM_ID, TokenVault2, 72)}

GetAccountResponses ==
    {Err("transport error"), Err("AccountNotFound")}
        \cup {Ok([data |-> d]) : d \in VaultDatas}

Blockhashes == {"B1", "B2"}

GetLatestBlockhashResponses ==
    {Err("transport error")} \cup {Ok(Str(b)) : b \in Blockhashes}

----------------------------------------------------------------------------
(* 64-bit unsigned arithmetic, on little-endian base-256 limbs *)

LIMB == 256

U64_LIMBS == 8

\* n as w limbs, for 0 <= n < 2^31
ToLimbs(n, w) ==
    [i \in 1..w |-> IF i <= 4 THEN (n \div (LIMB ^ (i - 1))) % LIMB ELSE 0]

RECURSIVE MulFrom(_, _, _, _, _)
MulFrom(x, k, i, carry, acc) ==
    IF i > Len(x)
    THEN [limbs |-> acc, carry |-> carry]
    ELSE MulFrom(x, k, i + 1, (x[i] * k + carry) \div LIMB,
                 Append(acc, (x[i] * k + carry) % LIMB))

\* x * k in the width of x: the low limbs and whether the product overflowed
mul(x, k) ==
    LET m == MulFrom(x, k, 1, 0, <<>>)
    IN [val |-> m.limbs, overflow |-> m.carry # 0]

\* *payment_duration as u64 * 86400_u64 * 1_000, in limbs of the given width
MillisInWidth(d, w) ==
    LET secs == mul(ToLimbs(d, w), 86400)
        ms == mul(secs.val, 1000)
    IN [val |-> ms.val \o [i \in 1..(U64_LIMBS - w) |-> 0],
        overflow |-> secs.overflow \/ ms.overflow]

\* the product computed in 32 bits and widened afterwards
SleepMillis_u32(d) == MillisInWidth(d, 4)

SleepMillis(d) == MillisInWidth(d, U64_LIMBS)

\* the products for the durations of the model, computed once
SleepMillisOf == [d \in Durations \cup {DEFAULT_DURATION} |-> SleepMillis(d)]

----------------------------------------------------------------------------
(* Instruction and transaction *)

\* AccountMeta::new: writable
AccountMeta_new(pubkey, is_signer) ==
    [pubkey |-> pubkey, is_signer |-> is_signer, is_writable |-> TRUE]

\* AccountMeta::new_readonly
AccountMeta_new_readonly(pubkey, is_signer) ==
    [pubkey |-> pubkey, is_signer |-> is_signer, is_writable |-> FALSE]

\* 8 byte discriminator for instruction TopupInterest
instruction_discriminator == <<196, 215, 224, 233, 237, 212, 2, 56>>

\* as Instruction::new_with_borsh would: the byte vector is serialized, with
\* its u32 length in front
Instruction_new_with_borsh(program_id, data, accounts) ==
    [program_id |-> program_id, accounts |-> accounts,
     data |-> <<Len(data), 0, 0, 0>> \o data]

\* Instruction::new_with_bytes: the data is copied as given
Instruction_new_with_bytes(program_id, data, accounts) ==
    [program_id |-> program_id, accounts |-> accounts, data |-> data]

\* the account list with the mint and the vault in each other's place
AccountMetas_swapped(payer, vault, token, payer_ac, vault_ac) ==
    << AccountMeta_new(VAULTS_PROGRAM_ID, FALSE),
       AccountMeta_new(payer, TRUE),
       AccountMeta_new(vault, FALSE),
       AccountMeta_new_readonly(token, FALSE),
       AccountMeta_new(payer_ac, FALSE),
       AccountMeta_new(vault_ac, FALSE),
       AccountMeta_new_readonly(TOKEN_PROGRAM_ID, FALSE),
       AccountMeta_new_readonly(SYSTEM_PROGRAM_ID, FALSE) >>

\* the account list of the instruction, as main writes it
AccountMetas(payer, vault, token, payer_ac, vault_ac) ==
    << AccountMeta_new(VAULTS_PROGRAM_ID, FALSE),
       AccountMeta_new(payer, TRUE),
       AccountMeta_new_readonly(token, FALSE),
       AccountMeta_new(vault, FALSE),
       AccountMeta_new(payer_ac, FALSE),
       AccountMeta_new(vault_ac, FALSE),
       AccountMeta_new_readonly(TOKEN_PROGRAM_ID, FALSE),
       AccountMeta_new_readonly(SYSTEM_PROGRAM_ID, FALSE) >>

\* Keypair::sign_message, kept symbolic
Signature(keypair, message) ==
    [kind |-> "signature", signer |-> keypair.pubkey, message |-> message]

\* Transaction::new_signed_with_payer followed by Transaction::sign with the
\* same keypair and blockhash, which leaves the same signature
SignedTransaction(ix, keypair, blockhash) ==
    LET message == [fee_payer |-> keypair.pubkey,
                    instructions |-> <<ix>>,
                    recent_blockhash |-> blockhash]
    IN [message |-> message, signatures |-> <<Signature(keypair, message)>>]

\* the fixed send policy of main
SendConfig ==
    [commitment |-> "processed",
     skip_preflight |-> TRUE,
     preflight_commitment |-> None,
     max_retries |-> None,
     encoding |-> None,
     min_context_slot |-> None]

SendResponses(tx) == {Ok(tx.signatures[1]), Err("transaction rejected")}

\* a request of the current tick over the current connection, and its response
Request(method, param, resp) ==
    [tick |-> tick, client |-> rpc_client, method |-> method, param |-> param,
     resp |-> resp]

----------------------------------------------------------------------------
(* The loop of main *)

\* loop { let rpc_client = RpcClient::new(network_url.to_string());
NewClient ==
    /\ pc = "Idle"
    /\ UNCHANGED sleeps
    /\ tick < MaxTicks
    /\ tick' = tick + 1
    /\ rpc_client' = [endpoint |-> network_url.s, opened_in |-> tick + 1]
    /\ pc' = "Fetching"
    /\ UNCHANGED startup_vars
    /\ UNCHANGED <<vault_account, vault_deserialized, token_payer_ac,
                   pay_interest_ix, recent_blockhash, transaction, result,
                   sleep_ms, rpc_log, stdout, stderr, exit_code>>

\* rpc_client.get_account(vault).await? : an Err is returned from main
GetAccount ==
    /\ pc = "Fetching"
    /\ UNCHANGED sleeps
    /\ \E resp \in GetAccountResponses :
        /\ rpc_log' = Append(rpc_log, Request("getAccountInfo", args.vault, resp))
        /\ IF IsOk(resp)
           THEN /\ vault_account' = resp.val
                /\ pc' = "Decoding"
                /\ UNCHANGED <<stderr, exit_code>>
           ELSE /\ Exit(EXIT_ERR, Line("Error: ", Str(resp.err)))
                /\ UNCHANGED vault_account
    /\ UNCHANGED startup_vars
    /\ UNCHANGED <<tick, rpc_client, vault_deserialized, token_payer_ac,
                   pay_interest_ix, recent_blockhash, transaction, result,
                   sleep_ms, stdout>>

\* <[u8]>::split_at(mid): defined for mid <= len, panics otherwise
split_at(data, mid) ==
    IF mid <= Len(data)
    THEN Ok(<<Take(data, mid), Drop(data, mid)>>)
    ELSE Err("panic: mid > len")

\* Vault::deserialize: the fields are read in layout order from the front of
\* the buffer; a buffer that ends before a field does is an Err
Vault_deserialize(buf) ==
    IF Len(buf) < 2 * PUBKEY_BYTES
    THEN Err("Unexpected length of input")
    ELSE Ok([token |-> Pubkey(SubSeq(buf, 1, PUBKEY_BYTES)),
             token_vault_ac |-> Pubkey(SubSeq(buf, PUBKEY_BYTES + 1, 2 * PUBKEY_BYTES))])

\* Vault::deserialize(vault_account.data.split_at(ANCHOR_DISCRIMINATOR_SIZE).1 ..)?
\* the outcome of the statement: the vault, an Err returned from main, or a panic
DeserializeOutcome(data) ==
    LET parts == split_at(data, ANCHOR_DISCRIMINATOR_SIZE)
    IN IF IsErr(parts)
       THEN [kind |-> "panic", msg |-> parts.err]
       ELSE LET v == Vault_deserialize(parts.val[2])
            IN IF IsOk(v)
               THEN [kind |-> "vault", vault |-> v.val]
               ELSE [kind |-> "err", msg |-> v.err]

Deserialize ==
    /\ pc = "Decoding"
    /\ UNCHANGED sleeps
    /\ LET out == DeserializeOutcome(vault_account.data)
       IN CASE out.kind = "vault" ->
                 /\ vault_deserialized' = out.vault
                 /\ pc' = "Building"
                 /\ UNCHANGED <<stderr, exit_code>>
            [] out.kind = "err" ->
                 /\ Exit(EXIT_ERR, Line("Error: ", Str(out.msg)))
                 /\ UNCHANGED vault_deserialized
            [] out.kind = "panic" ->
                 /\ Exit(EXIT_PANIC, Line("thread 'main' panicked: ", Str(out.msg)))
                 /\ UNCHANGED vault_deserialized
    /\ UNCHANGED startup_vars
    /\ UNCHANGED <<tick, rpc_client, vault_account, token_payer_ac,
                   pay_interest_ix, recent_blockhash, transaction, result,
                   sleep_ms, rpc_log, stdout>>

\* the associated token account of the payer, then the instruction
BuildInstruction ==
    /\ pc = "Building"
    /\ UNCHANGED sleeps
    /\ LET token_vault == vault_deserialized.token_vault_ac
           token == vault_deserialized.token
           payer == interest_payer_keypair.pubkey
           payer_ac == get_associated_token_address(payer, token)
       IN /\ token_payer_ac' = payer_ac
          /\ pay_interest_ix' =
                Instruction_new_with_bytes(
                    VAULTS_PROGRAM_ID,
                    instruction_discriminator,
                    AccountMetas(payer, args.vault, token, payer_ac, token_vault))
    /\ pc' = "Blockhash"
    /\ UNCHANGED startup_vars
    /\ UNCHANGED <<tick, rpc_client, vault_account, vault_deserialized,
                   recent_blockhash, transaction, result, sleep_ms, rpc_log,
                   stdout, stderr, exit_code>>

\* the blockhash unwrapped with a default: an Err gives the default hash
GetLatestBlockhash_or_default ==
    /\ pc = "Blockhash"
    /\ UNCHANGED sleeps
    /\ \E resp \in GetLatestBlockhashResponses :
        /\ rpc_log' = Append(rpc_log, Request("getLatestBlockhash", None, resp))
        /\ recent_blockhash' = IF IsOk(resp) THEN resp.val ELSE Str("default")
    /\ pc' = "Signing"
    /\ UNCHANGED startup_vars
    /\ UNCHANGED <<tick, rpc_client, vault_account, vault_deserialized,
                   token_payer_ac, pay_interest_ix, transaction, result,
                   sleep_ms, stdout, stderr, exit_code>>

\* the blockhash fetched once and kept for the later ticks
GetLatestBlockhash_cached ==
    /\ pc = "Blockhash"
    /\ UNCHANGED sleeps
    /\ LET known == {i \in 1..Len(rpc_log) :
                        rpc_log[i].method = "getLatestBlockhash" /\ IsOk(rpc_log[i].resp)}
       IN IF known # {}
          THEN /\ recent_blockhash' = rpc_log[CHOOSE i \in known : TRUE].resp.val
               /\ pc' = "Signing"
               /\ UNCHANGED <<rpc_log, stderr, exit_code>>
          ELSE \E resp \in GetLatestBlockhashResponses :
                /\ rpc_log' = Append(rpc_log, Request("getLatestBlockhash", None, resp))
                /\ IF IsOk(resp)
                   THEN /\ recent_blockhash' = resp.val
                        /\ pc' = "Signing"
                        /\ UNCHANGED <<stderr, exit_code>>
                   ELSE /\ Exit(EXIT_PANIC, Line("thread 'main' panicked: ", Str(resp.err)))
                        /\ UNCHANGED recent_blockhash
    /\ UNCHANGED startup_vars
    /\ UNCHANGED <<tick, rpc_client, vault_account, vault_deserialized,
                   token_payer_ac, pay_interest_ix, transaction, result,
                   sleep_ms, stdout>>

\* rpc_client.get_latest_blockhash().await.unwrap() : an Err panics
GetLatestBlockhash ==
    /\ pc = "Blockhash"
    /\ UNCHANGED sleeps
    /\ \E resp \in GetLatestBlockhashResponses :
        /\ rpc_log' = Append(rpc_log, Request("getLatestBlockhash", None, resp))
        /\ IF IsOk(resp)
           THEN /\ recent_blockhash' = resp.val
                /\ pc' = "Signing"
                /\ UNCHANGED <<stderr, exit_code>>
           ELSE /\ Exit(EXIT_PANIC, Line("thread 'main' panicked: ", Str(resp.err)))
                /\ UNCHANGED recent_blockhash
    /\ UNCHANGED startup_vars
    /\ UNCHANGED <<tick, rpc_client, vault_account, vault_deserialized,
                   token_payer_ac, pay_interest_ix, transaction, result,
                   sleep_ms, stdout>>

SignTransaction ==
    /\ pc = "Signing"
    /\ UNCHANGED sleeps
    /\ transaction' = SignedTransaction(pay_interest_ix, interest_payer_keypair,
                                        recent_blockhash)
    /\ pc' = "Submitting"
    /\ UNCHANGED startup_vars
    /\ UNCHANGED <<tick, rpc_client, vault_account, vault_deserialized,
                   token_payer_ac, pay_interest_ix, recent_blockhash, result,
                   sleep_ms, rpc_log, stdout, stderr, exit_code>>

\* the submission handed to a task of its own and not awaited: main goes
\* straight to its sleep
SendAndConfirm_detached ==
    /\ pc = "Submitting"
    /\ UNCHANGED sleeps
    /\ \E resp \in SendResponses(transaction) :
        rpc_log' = Append(rpc_log,
                Request("sendTransaction", [tx |-> transaction, config |-> SendConfig],
                        resp))
    /\ pc' = "Sleep"
    /\ UNCHANGED startup_vars
    /\ UNCHANGED <<tick, rpc_client, vault_account, vault_deserialized,
                   token_payer_ac, pay_interest_ix, recent_blockhash, transaction,
                   result, sleep_ms, stdout, stderr, exit_code>>

\* send_and_confirm_transaction_with_spinner_and_config(..).await : the
\* Result is kept, not propagated
SendAndConfirm ==
    /\ pc = "Submitting"
    /\ UNCHANGED sleeps
    /\ \E resp \in SendResponses(transaction) :
        /\ rpc_log' = Append(rpc_log,
                Request("sendTransaction", [tx |-> transaction, config |-> SendConfig],
                        resp))
        /\ result' = resp
    /\ pc' = "Reporting"
    /\ UNCHANGED startup_vars
    /\ UNCHANGED <<tick, rpc_client, vault_account, vault_deserialized,
                   token_payer_ac, pay_interest_ix, recent_blockhash, transaction,
                   sleep_ms, stdout, stderr, exit_code>>

\* the submission error propagated with ?, as the errors of get_account are
ReportOutcome_propagate ==
    /\ pc = "Reporting"
    /\ UNCHANGED sleeps
    /\ IF IsOk(result)
       THEN /\ stdout' = Append(stdout, Line("Transaction sig: ", result.val))
            /\ pc' = "Sleep"
            /\ UNCHANGED <<stderr, exit_code>>
       ELSE /\ Exit(EXIT_ERR, Line("Error: ", Str(result.err)))
            /\ UNCHANGED stdout
    /\ UNCHANGED startup_vars
    /\ UNCHANGED tick_vars
    /\ UNCHANGED <<tick, sleep_ms, rpc_log>>

\* a failed submission sent once more before the sleep
ReportOutcome_retry ==
    /\ pc = "Reporting"
    /\ UNCHANGED sleeps
    /\ stdout' = Append(stdout,
            IF IsOk(result)
            THEN Line("Transaction sig: ", result.val)
            ELSE Line("Transaction failed. Error: ", Str(result.err)))
    /\ pc' = IF IsErr(result)
                /\ Cardinality({i \in 1..Len(rpc_log) :
                        rpc_log[i].method = "sendTransaction" /\ rpc_log[i].tick = tick}) < 2
             THEN "Submitting"
             ELSE "Sleep"
    /\ UNCHANGED startup_vars
    /\ UNCHANGED tick_vars
    /\ UNCHANGED <<tick, sleep_ms, rpc_log, stderr, exit_code>>

\* the Ok arm left without its println
ReportOutcome_quiet ==
    /\ pc = "Reporting"
    /\ UNCHANGED sleeps
    /\ stdout' = IF IsOk(result)
                 THEN stdout
                 ELSE Append(stdout, Line("Transaction failed. Error: ", Str(result.err)))
    /\ pc' = "Sleep"
    /\ UNCHANGED startup_vars
    /\ UNCHANGED tick_vars
    /\ UNCHANGED <<tick, sleep_ms, rpc_log, stderr, exit_code>>

\* match result { Ok(signature) => println!(..), Err(err) => println!(..) }
ReportOutcome ==
    /\ pc = "Reporting"
    /\ UNCHANGED sleeps
    /\ stdout' = Append(stdout,
            IF IsOk(result)
            THEN Line("Transaction sig: ", result.val)
            ELSE Line("Transaction failed. Error: ", Str(result.err)))
    /\ pc' = "Sleep"
    /\ UNCHANGED startup_vars
    /\ UNCHANGED tick_vars
    /\ UNCHANGED <<tick, sleep_ms, rpc_log, stderr, exit_code>>

\* what an overflowing multiplication does: it panics in a build with
\* overflow checks and wraps in a build without
OverflowOutcomes(overflow) == IF overflow THEN {"panic", "wrap"} ELSE {"exact"}

\* tokio::time::sleep(Duration::from_millis(..)) is started
Sleep ==
    /\ pc = "Sleep"
    /\ UNCHANGED sleeps
    /\ LET ms == SleepMillisOf[args.duration]
       IN \E o \in OverflowOutcomes(ms.overflow) :
            IF o = "panic"
            THEN /\ Exit(EXIT_PANIC, Line("thread 'main' panicked: ",
                                          Str("attempt to multiply with overflow")))
                 /\ UNCHANGED sleep_ms
            ELSE /\ sleep_ms' = [limbs |-> ms.val]
                 /\ pc' = "Sleeping"
                 /\ UNCHANGED <<stderr, exit_code>>
    /\ UNCHANGED startup_vars
    /\ UNCHANGED tick_vars
    /\ UNCHANGED <<tick, rpc_log, stdout>>

\* the sleep elapses: the loop body ends, its bindings go out of scope, and
\* the loop starts over
Wake ==
    /\ pc = "Sleeping"
    /\ pc' = "Idle"
    /\ sleeps' = Append(sleeps, [tick |-> tick, ms |-> sleep_ms.limbs])
    /\ rpc_client' = NotStarted
    /\ vault_account' = NotStarted
    /\ vault_deserialized' = NotStarted
    /\ token_payer_ac' = NotStarted
    /\ pay_interest_ix' = NotStarted
    /\ recent_blockhash' = NotStarted
    /\ transaction' = NotStarted
    /\ result' = NotStarted
    /\ UNCHANGED startup_vars
    /\ UNCHANGED <<tick, sleep_ms, rpc_log, stdout, stderr, exit_code>>

Next ==
    \/ ParseArgs
    \/ LoadConfig
    \/ LoadKeypair
    \/ Banner
    \/ NewClient
    \/ GetAccount
    \/ Deserialize
    \/ BuildInstruction
    \/ GetLatestBlockhash
    \/ SignTransaction
    \/ SendAndConfirm
    \/ ReportOutcome
    \/ Sleep
    \/ Wake

Spec == Init /\ [][Next]_vars

\* the runtime keeps polling main: an enabled step is eventually taken (an
\* RPC call returns, the sleep elapses)
FairNext == WF_vars(Next)

\* the runs of an operator who passes --vault and --duration and leaves the
\* endpoint and the keypair to a readable configuration
LiveInit ==
    /\ Init
    /\ argv.url = None
    /\ argv.keypair_path = None
    /\ IsSome(fs.config_file)
    /\ IsOk(fs.config_load)
    /\ DOMAIN fs.keypairs = DOMAIN KeypairFiles

FairSpec == LiveInit /\ [][Next]_vars /\ FairNext

\* values given to --url: every pattern of get_network, and strings that
\* match none
NetworkInputs ==
    {"devnet", "dev", "d", "mainnet", "main", "m", "mainnet-beta",
     "localnet", "localhost", "l"}
        \cup {"http://my.node:8899", "https://api.devnet.solana.com",
              "https://api.mainnet-beta.solana.com", "http://localhost:8899",
              "", "Devnet", "testnet"}

\* the runs over the values of --url, with a readable configuration
UrlInit ==
    /\ argv \in [url : {None} \cup {Some(u) : u \in NetworkInputs},
                 vault : {Some(VaultArg)},
                 duration : {Some(0)},
                 keypair_path : {None}]
    /\ fs = [config_file |-> Some(<<"/", "home", "op", ".config", "solana", "cli", "config.yml">>),
             config_load |-> Ok(ConfigOnFile),
             keypairs |-> KeypairFiles]
    /\ FreshProcess

UrlSpec == UrlInit /\ [][Next]_vars

----------------------------------------------------------------------------
(* Helpers of the properties *)

HasOutcome == result.tag \in {"Ok", "Err"}

LastRequest == rpc_log[Len(rpc_log)]

\* sendTransaction requests issued in tick n
Submissions(n) ==
    {i \in 1..Len(rpc_log) : rpc_log[i].method = "sendTransaction" /\ rpc_log[i].tick = n}

RECURSIVE DivFrom(_, _, _, _, _)
DivFrom(x, k, i, rem, acc) ==
    IF i = 0
    THEN [q |-> acc, r |-> rem]
    ELSE DivFrom(x, k, i - 1, (rem * LIMB + x[i]) % k,
                 <<(rem * LIMB + x[i]) \div k>> \o acc)

\* quotient and remainder of the limbs x by k, for 0 < k < 2^23
DivSmall(x, k) == DivFrom(x, k, Len(x), 0, <<>>)

----------------------------------------------------------------------------
(* Properties *)

\* C1: after every outcome of the submission, Ok or Err, main goes on to the
\* sleep and from the sleep to the top of the loop, where the next tick
\* starts; while an outcome is held the process has not exited.
C1_AfterSubmissionSleepThenNextTick ==
    /\ [][/\ pc = "Reporting" => pc' = "Sleep"
          /\ pc = "Sleep" => pc' = "Sleeping"
          /\ pc = "Sleeping" => pc' = "Idle"
          /\ HasOutcome => pc' # "Exited"]_vars
    /\ (pc = "Reporting") ~> (pc = "Fetching" \/ (pc = "Idle" /\ tick = MaxTicks))

\* a second tick was started after a failed submission in the first
C1_Witness ==
    /\ tick = 2
    /\ pc = "Fetching"
    /\ \E i \in 1..Len(stdout) : stdout[i].text = "Transaction failed. Error: "

\* C2: once the loop is entered the process has no terminated state: every
\* tick, also one that ended in a transport, decode or submit error, goes on
\* to the sleep and the next tick.
C2_NoExitOnceLoopEntered == tick >= 1 => pc # "Exited"

GetAccountFailed ==
    /\ rpc_log # <<>>
    /\ LastRequest.method = "getAccountInfo"
    /\ pc # "Fetching"
    /\ vault_account = NotStarted

ErrorLine(l) == l.text \in {"Error: ", "Transaction failed. Error: "}

\* C3: when get_account fails, one error line is on stdout, nothing was
\* submitted in the tick, and main is on its way to the sleep of the tick.
C3_GetAccountFailureSkipsTick ==
    GetAccountFailed =>
        /\ pc \in {"Sleep", "Sleeping"}
        /\ stdout # <<>> /\ ErrorLine(stdout[Len(stdout)])
        /\ Submissions(tick) = {}

DecodeFailed ==
    /\ vault_account # NotStarted
    /\ pc # "Decoding"
    /\ vault_deserialized = NotStarted

\* C4: when the vault account does not decode (40 bytes in all), a decode
\* error line is on stdout, nothing was submitted in the tick, and main is
\* on its way to the sleep of the tick.
C4_DecodeFailureSkipsTick ==
    (DecodeFailed /\ Len(vault_account.data) = 40) =>
        /\ pc \in {"Sleep", "Sleeping"}
        /\ stdout # <<>> /\ ErrorLine(stdout[Len(stdout)])
        /\ Submissions(tick) = {}

BlockhashFailed ==
    /\ rpc_log # <<>>
    /\ LastRequest.method = "getLatestBlockhash"
    /\ pc # "Blockhash"
    /\ recent_blockhash = NotStarted

\* C5: when get_latest_blockhash fails, the error is a line on stdout,
\* nothing was submitted in the tick and the process goes on to the sleep:
\* the error does not leave the loop.
C5_BlockhashFailureCaught ==
    BlockhashFailed =>
        /\ pc \in {"Sleep", "Sleeping"}
        /\ exit_code = None
        /\ stdout # <<>> /\ ErrorLine(stdout[Len(stdout)])
        /\ Submissions(tick) = {}

Decoded == vault_account # NotStarted /\ pc # "Decoding"

\* C6: account data shorter than 8 + 64 bytes, the lengths 0..7 included,
\* ends the decode step in a decode error: no vault is decoded and the step
\* fails in no other way (no panic).
C6_ShortPayloadIsDecodeError ==
    (Decoded /\ Len(vault_account.data) < ANCHOR_DISCRIMINATOR_SIZE + 2 * PUBKEY_BYTES) =>
        /\ vault_deserialized = NotStarted
        /\ exit_code # Some(EXIT_PANIC)

\* C7: the instruction targets the vaults program and lists exactly these 8
\* accounts in this order: program (w), payer (w, signer), token (r), vault
\* (w), associated token account of payer and token (w), token_vault_ac (w),
\* SPL token program (r), system program (r); the payer entry is the only
\* signer; the program entry stays when another entry has the same address.
C7_InstructionAccounts ==
    pay_interest_ix # NotStarted =>
        LET payer == interest_payer_keypair.pubkey
            token == vault_deserialized.token
            a == pay_interest_ix.accounts
        IN /\ pay_interest_ix.program_id = VAULTS_PROGRAM_ID
           /\ Len(a) = 8
           /\ a[1] = [pubkey |-> VAULTS_PROGRAM_ID, is_signer |-> FALSE, is_writable |-> TRUE]
           /\ a[2] = [pubkey |-> payer, is_signer |-> TRUE, is_writable |-> TRUE]
           /\ a[3] = [pubkey |-> token, is_signer |-> FALSE, is_writable |-> FALSE]
           /\ a[4] = [pubkey |-> argv.vault.val, is_signer |-> FALSE, is_writable |-> TRUE]
           /\ a[5] = [pubkey |-> find_program_address(<<payer, TOKEN_PROGRAM_ID, token>>,
                                                     ASSOCIATED_TOKEN_PROGRAM_ID),
                      is_signer |-> FALSE, is_writable |-> TRUE]
           /\ a[6] = [pubkey |-> vault_deserialized.token_vault_ac,
                      is_signer |-> FALSE, is_writable |-> TRUE]
           /\ a[7] = [pubkey |-> TOKEN_PROGRAM_ID, is_signer |-> FALSE, is_writable |-> FALSE]
           /\ a[8] = [pubkey |-> SYSTEM_PROGRAM_ID, is_signer |-> FALSE, is_writable |-> FALSE]
           /\ {i \in 1..Len(a) : a[i].is_signer} = {2}

\* an instruction was built for a vault whose token is the program address
C7_Witness ==
    /\ pay_interest_ix # NotStarted
    /\ vault_deserialized.token = VAULTS_PROGRAM_ID
    /\ pay_interest_ix.accounts[1].pubkey = pay_interest_ix.accounts[3].pubkey

Selector == <<196, 215, 224, 233, 237, 212, 2, 56>>

\* C8: the data of the built instruction, and of every instruction sent, is
\* the 8 selector bytes C4 D7 E0 E9 ED D4 02 38 and nothing more.
C8_SelectorOnly ==
    /\ pay_interest_ix # NotStarted => pay_interest_ix.data = Selector
    /\ \A i \in 1..Len(rpc_log) :
         rpc_log[i].method = "sendTransaction" =>
            \A j \in 1..Len(rpc_log[i].param.tx.message.instructions) :
                rpc_log[i].param.tx.message.instructions[j].data = Selector

\* a second instruction was sent, built from another vault record than the first
C8_Witness ==
    /\ Submissions(1) # {} /\ Submissions(2) # {}
    /\ \E i \in Submissions(1), j \in Submissions(2) :
         rpc_log[i].param.tx.message.instructions[1].accounts
            # rpc_log[j].param.tx.message.instructions[1].accounts

\* the number held by limbs below 2^31
LimbsValue(x) == x[1] + x[2] * 256 + x[3] * 65536 + x[4] * 16777216

\* C9: the sleep of every tick is d * 86_400_000 ms for the duration d of
\* the command line (864 * d, times 100_000), as a 64-bit value, and no
\* multiplication overflowed.
C9_SleepIsExactProduct ==
    /\ sleep_ms # NotStarted =>
         LET d == unwrap_or(argv.duration, DEFAULT_DURATION)
             qr == DivSmall(sleep_ms.limbs, 100000)
         IN /\ Len(sleep_ms.limbs) = U64_LIMBS
            /\ qr.r = 0
            /\ \A i \in 5..U64_LIMBS : qr.q[i] = 0
            /\ qr.q[4] < 128
            /\ LimbsValue(qr.q) = 864 * d
    /\ \A i \in 1..Len(stderr) : stderr[i].arg # Str("attempt to multiply with overflow")
    /\ pc = "Sleeping" => sleep_ms # NotStarted

\* the second sleep of a run with the largest duration
C9_Witness ==
    /\ argv.duration = Some(U16_MAX)
    /\ tick = 2
    /\ pc = "Sleeping"

\* C10: with --duration 0 the loop retries at once: the sleep is of zero
\* length and no outcome of a tick ends the process.
C10_ZeroDurationRetriesAtOnce ==
    (argv.duration = Some(0) /\ tick >= 1) =>
        /\ pc # "Exited"
        /\ pc = "Sleeping" => sleep_ms.limbs = [i \in 1..U64_LIMBS |-> 0]

\* the string main passes to get_network
NetworkInput == unwrap_or(args.url, config.json_rpc_url)

NetworkAliases ==
    {"devnet", "dev", "d", "mainnet", "main", "m", "mainnet-beta",
     "localnet", "localhost", "l"}

\* C11: get_network is idempotent on every alias and every literal URL:
\* resolving the resolved endpoint gives the endpoint again, and no
\* resolved endpoint is an alias.
C11_GetNetworkIdempotent ==
    network_url # NotStarted =>
        /\ get_network(get_network(NetworkInput)) = get_network(NetworkInput)
        /\ get_network(network_url.s) = network_url.s
        /\ network_url.s \notin NetworkAliases

\* the alias m was resolved
C11_Witness ==
    /\ pc = "Idle"
    /\ argv.url = Some("m")
    /\ network_url = Str("https://api.mainnet-beta.solana.com")

\* the endpoint the spec gives for a --url value
ExpectedEndpoint(x) ==
    IF x = "devnet" \/ x = "dev" \/ x = "d"
    THEN "https://api.devnet.solana.com"
    ELSE IF x = "mainnet" \/ x = "main" \/ x = "m" \/ x = "mainnet-beta"
    THEN "https://api.mainnet-beta.solana.com"
    ELSE IF x = "localnet" \/ x = "localhost" \/ x = "l"
    THEN "http://localhost:8899"
    ELSE x

\* C12: the three groups of aliases resolve to the devnet, mainnet-beta and
\* localhost endpoints, every other string is kept verbatim, and the
\* resolved endpoint is the one each tick connects and sends its requests to.
C12_EndpointOfEveryTick ==
    /\ network_url # NotStarted => network_url.s = ExpectedEndpoint(NetworkInput)
    /\ rpc_client # NotStarted => rpc_client.endpoint = ExpectedEndpoint(NetworkInput)
    /\ \A i \in 1..Len(rpc_log) :
         rpc_log[i].client.endpoint = ExpectedEndpoint(NetworkInput)

\* the second tick connects to the literal URL of the command line
C12_Witness ==
    /\ tick = 2
    /\ pc = "Fetching"
    /\ argv.url = Some("http://my.node:8899")
    /\ rpc_client.endpoint = "http://my.node:8899"

\* the configuration the operator's files give: the file when it loads, the
\* built-in defaults otherwise
ConfigOfFiles ==
    IF IsSome(fs.config_file) /\ IsOk(fs.config_load)
    THEN fs.config_load.val
    ELSE ConfigDefault

\* the keypair path in force: the one of the command line, else the configured one
KeypairPathInForce ==
    IF IsSome(argv.keypair_path) THEN argv.keypair_path.val
    ELSE ConfigOfFiles.keypair_path

KeypairUnreadable == tilde(KeypairPathInForce) \notin DOMAIN fs.keypairs

\* C13: --url and the keypair path of the command line win over the
\* configuration, which serves when they are absent; a configuration file
\* that does not load costs a warning line and the defaults, not the
\* startup; an unreadable keypair ends the process with an error before the
\* loop, so before any request to the endpoint.
C13_StartupPrecedence ==
    /\ network_url # NotStarted =>
         network_url.s = get_network(IF IsSome(argv.url) THEN argv.url.val
                                     ELSE ConfigOfFiles.json_rpc_url)
    /\ interest_payer_keypair # NotStarted =>
         /\ ~KeypairUnreadable
         /\ interest_payer_keypair = fs.keypairs[tilde(KeypairPathInForce)]
    /\ (config # NotStarted /\ IsSome(fs.config_file) /\ IsErr(fs.config_load)) =>
         /\ config = ConfigDefault
         /\ stdout # <<>> /\ stdout[1].text = "Failed to load config file: "
    /\ (pc = "Exited" /\ tick = 0) => (argv.vault = None \/ KeypairUnreadable)
    /\ (IsSome(argv.vault) /\ KeypairUnreadable
            /\ pc \notin {"Start", "LoadConfig", "LoadKeypair"}) =>
         /\ pc = "Exited"
         /\ exit_code = Some(EXIT_ERR)
         /\ tick = 0
         /\ rpc_log = <<>>

\* the loop is entered with the keypair and the endpoint of the command
\* line although the configuration file names others
C13_Witness ==
    /\ pc = "Idle"
    /\ config = ConfigOnFile
    /\ argv.keypair_path = Some(CliKeypairPath)
    /\ interest_payer_keypair = Keypair(1)
    /\ argv.url = Some("m")
    /\ network_url = Str("https://api.mainnet-beta.solana.com")

\* the requests of a method, by position in the log
RequestsOf(method) == {i \in 1..Len(rpc_log) : rpc_log[i].method = method}

SentInstruction(i) == rpc_log[i].param.tx.message.instructions[1]

\* C14: nothing read from the chain serves two ticks.  Every request goes
\* over a connection opened in its own tick, and every transaction sent was
\* preceded, in its tick, by a get_account and a get_latest_blockhash whose
\* answers are the ones it is built from: the blockhash, and the token and
\* token account at bytes 8..40 and 40..72 of the account data.
C14_NothingReusedAcrossTicks ==
    /\ rpc_client # NotStarted => rpc_client.opened_in = tick
    /\ \A n \in 1..tick :
         (n < tick \/ pc # "Fetching") =>
            \E j \in RequestsOf("getAccountInfo") :
                rpc_log[j].tick = n /\ rpc_log[j].param = argv.vault.val
    /\ \A i \in 1..Len(rpc_log) : rpc_log[i].client.opened_in = rpc_log[i].tick
    /\ \A i \in RequestsOf("sendTransaction") :
         \E j \in RequestsOf("getAccountInfo"), k \in RequestsOf("getLatestBlockhash") :
            /\ j < k /\ k < i
            /\ rpc_log[j].tick = rpc_log[i].tick
            /\ rpc_log[k].tick = rpc_log[i].tick
            /\ IsOk(rpc_log[j].resp) /\ IsOk(rpc_log[k].resp)
            /\ rpc_log[i].param.tx.message.recent_blockhash = rpc_log[k].resp.val
            /\ SentInstruction(i).accounts[3].pubkey.bytes
                  = SubSeq(rpc_log[j].resp.val.data, 9, 40)
            /\ SentInstruction(i).accounts[6].pubkey.bytes
                  = SubSeq(rpc_log[j].resp.val.data, 41, 72)

\* two ticks submitted, and the vault record and the blockhash changed
\* between them
C14_Witness ==
    \E i \in Submissions(1), j \in Submissions(2) :
        /\ rpc_log[i].param.tx.message.recent_blockhash
              # rpc_log[j].param.tx.message.recent_blockhash
        /\ SentInstruction(i).accounts[3] # SentInstruction(j).accounts[3]
        /\ SentInstruction(i).accounts[6] # SentInstruction(j).accounts[6]

LoopPcs == {"Idle", "Fetching", "Decoding", "Building", "Blockhash", "Signing",
            "Submitting", "Reporting", "Sleep", "Sleeping"}

\* the order of the steps of a tick
TickOrder ==
    {<<"Idle", "Fetching">>, <<"Fetching", "Decoding">>, <<"Decoding", "Building">>,
     <<"Building", "Blockhash">>, <<"Blockhash", "Signing">>,
     <<"Signing", "Submitting">>, <<"Submitting", "Reporting">>,
     <<"Reporting", "Sleep">>, <<"Sleep", "Sleeping">>, <<"Sleeping", "Idle">>}

\* the methods requested in tick n, in order
RECURSIVE MethodsFrom(_, _)
MethodsFrom(n, i) ==
    IF i > Len(rpc_log) THEN <<>>
    ELSE (IF rpc_log[i].tick = n THEN <<rpc_log[i].method>> ELSE <<>>)
            \o MethodsFrom(n, i + 1)

MethodsOfTick(n) == MethodsFrom(n, 1)

\* C15: a tick moves from step to step in the one order Idle, Fetching
\* (get_account, decode), Building, blockhash fetch, signing, Submitting,
\* Reporting, Sleeping, Idle; a step is entered only with the product of the
\* step before it, and the sleep only with the outcome of the submission.
C15_TickStepsInOrder ==
    [][(pc \in LoopPcs /\ pc' # pc) =>
          /\ pc' = "Exited" \/ <<pc, pc'>> \in TickOrder
          /\ pc' = "Decoding" => vault_account' # NotStarted
          /\ pc' = "Building" => vault_deserialized' # NotStarted
          /\ pc' = "Blockhash" => pay_interest_ix' # NotStarted
          /\ pc' = "Signing" => recent_blockhash' # NotStarted
          /\ pc' = "Submitting" => transaction' # NotStarted
          /\ pc' \in {"Reporting", "Sleep", "Sleeping"} =>
                /\ result'.tag \in {"Ok", "Err"}
                /\ MethodsOfTick(tick)' =
                      <<"getAccountInfo", "getLatestBlockhash", "sendTransaction">>
          /\ pc' = "Sleep" => Len(stdout') = Len(stdout) + 1
      ]_vars

\* a tick ran through all its steps and is back at the top of the loop
C15_Witness ==
    /\ pc = "Idle"
    /\ tick = 1
    /\ Len(sleeps) = 1
    /\ MethodsOfTick(1) = <<"getAccountInfo", "getLatestBlockhash", "sendTransaction">>

\* the elapsed sleeps that began in a tick from a to b - 1
SleepsBetween(a, b) ==
    {k \in 1..Len(sleeps) : a <= sleeps[k].tick /\ sleeps[k].tick < b}

\* C16: there is no retry inside a tick: a tick sends at most one
\* transaction, and between a submission and the next one, whatever the
\* outcome of the first, lies one sleep of the full interval.
C16_NoLocalRetry ==
    /\ \A n \in 1..tick : Cardinality(Submissions(n)) <= 1
    /\ \A i, j \in RequestsOf("sendTransaction") :
         (i < j /\ ~ \E m \in RequestsOf("sendTransaction") : i < m /\ m < j) =>
            /\ rpc_log[i].tick < rpc_log[j].tick
            /\ Cardinality(SleepsBetween(rpc_log[i].tick, rpc_log[j].tick)) = 1
            /\ \A k \in SleepsBetween(rpc_log[i].tick, rpc_log[j].tick) :
                 sleeps[k].ms = SleepMillisOf[args.duration].val

\* a submission failed, and the next one was made in the next tick
C16_Witness ==
    \E i \in Submissions(1), j \in Submissions(2) :
        /\ IsErr(rpc_log[i].resp)
        /\ Len(sleeps) = 1

IsOutcomeLine(l) == l.text \in {"Transaction sig: ", "Transaction failed. Error: "}

OutcomeLines == SelectSeq(stdout, IsOutcomeLine)

IsSend(r) == r.method = "sendTransaction"

Sends == SelectSeq(rpc_log, IsSend)

\* C17: every submission is reported by one line, printed before the sleep
\* of its tick: Transaction sig with the signature if and only if it
\* returned Ok, Transaction failed with the error if and only if it
\* returned Err.
C17_OneOutcomeLinePerSubmission ==
    /\ Len(OutcomeLines) = Len(Sends) - (IF pc = "Reporting" THEN 1 ELSE 0)
    /\ pc = "Sleeping" => Len(OutcomeLines) = Len(sleeps) + 1
    /\ Len(sleeps) <= Len(OutcomeLines)
    /\ \A i \in 1..Len(OutcomeLines) :
         /\ OutcomeLines[i].text = "Transaction sig: " <=> IsOk(Sends[i].resp)
         /\ OutcomeLines[i].text = "Transaction failed. Error: " <=> IsErr(Sends[i].resp)
         /\ IsOk(Sends[i].resp) => OutcomeLines[i].arg = Sends[i].resp.val
         /\ IsErr(Sends[i].resp) => OutcomeLines[i].arg = Str(Sends[i].resp.err)

\* a failed and then a successful submission were reported, each before
\* its sleep
C17_Witness ==
    /\ pc = "Sleeping"
    /\ tick = 2
    /\ Len(OutcomeLines) = 2
    /\ OutcomeLines[1].text = "Transaction failed. Error: "
    /\ OutcomeLines[2].text = "Transaction sig: "

\* the requests of tick n that failed
FailedRequests(n) ==
    {i \in 1..Len(rpc_log) :
        /\ rpc_log[i].tick = n
        /\ rpc_log[i].method \in {"getAccountInfo", "getLatestBlockhash"}
        /\ IsErr(rpc_log[i].resp)}

\* the accounts returned in tick n that are too short to hold the vault
UndecodableAccounts(n) ==
    {i \in 1..Len(rpc_log) :
        /\ rpc_log[i].tick = n
        /\ rpc_log[i].method = "getAccountInfo"
        /\ IsOk(rpc_log[i].resp)
        /\ Len(rpc_log[i].resp.val.data) < 8 + 64}

\* C18: a tick submits only after its get_account, its decode and its
\* get_latest_blockhash succeeded; a tick in which one of them failed
\* submits nothing.
C18_SubmissionOnlyAfterSuccess ==
    /\ \A n \in 1..tick :
         (FailedRequests(n) # {} \/ UndecodableAccounts(n) # {}) => Submissions(n) = {}
    /\ \A n \in 1..tick :
         Submissions(n) # {} =>
            MethodsOfTick(n) = <<"getAccountInfo", "getLatestBlockhash", "sendTransaction">>
    /\ pc \in {"Submitting", "Reporting"} =>
         /\ vault_account # NotStarted
         /\ vault_deserialized # NotStarted
         /\ recent_blockhash # NotStarted

\* the second tick failed to fetch the blockhash and submitted nothing,
\* after a first tick that submitted
C18_Witness ==
    /\ tick = 2
    /\ Submissions(1) # {}
    /\ FailedRequests(2) # {}
    /\ LastRequest.method = "getLatestBlockhash"
    /\ Submissions(2) = {}

====
